---- MODULE Spec2Model ----
(***************************************************************************)
(* Model of noaa-alerts-pushover: fetch.py run as a periodic ingestion     *)
(* pass over the Alert table of models.py.                                 *)
(*                                                                         *)
(* A pass is the script body of fetch.py (lines 301-347): prune or purge   *)
(* the table, take the run timestamp, fetch and parse the feed, look up    *)
(* and create one record per entry, select the records created under the   *)
(* run timestamp, match them against the watched counties and push the     *)
(* matched ones.  Each database statement is one step, so that passes of   *)
(* two processes can interleave between statements.                        *)
(***************************************************************************)
EXTENDS Integers, Sequences, FiniteSets, TLC

\* ------------------------------------------------------------------ bounds
MaxPasses == 2
MaxTicks == 2
MaxFeedLen == 2
MaxCatalog == 2

\* --------------------------------------------------------------- constants
\* arrow.utcnow().replace(days=-1): one day, in seconds of the epoch clock
DaySeconds == 86400

\* the two OS processes that may run the script; Spec runs passes one after
\* another in P1, SpecOverlap lets the passes of P1 and P2 interleave
P1 == "p1"
P2 == "p2"
Procs == {P1, P2}

\* ------------------------------------------------------------ feed entries
Required == {"id", "title", "event", "expires", "link"}

\* hashlib.sha224(text).hexdigest(): a fixed digest per source id string
Sha224(text) ==
    CASE text = "http://alerts.weather.gov/cap/wwacapget.php?x=CO1" -> "3f1a"
      [] text = "http://alerts.weather.gov/cap/wwacapget.php?x=KS2" -> "9c07"
      [] OTHER -> "e5b2"

\* an <entry> element: has is the set of child elements that are present
EntryA ==
    [has |-> Required \cup {"geocode"},
     id |-> "http://alerts.weather.gov/cap/wwacapget.php?x=CO1",
     title |-> "Tornado Warning issued by NWS",
     event |-> "Tornado Warning",
     expires |-> [local |-> 0, offset |-> 0],
     link |-> "http://alerts.weather.gov/CO1",
     summary |-> <<>>,
     geocode |-> << [valueName |-> "FIPS6", hasValue |-> TRUE, text |-> <<"008005">>],
                    [valueName |-> "UGC", hasValue |-> TRUE, text |-> <<"COZ039">>] >>]

EntryB ==
    [has |-> Required \cup {"geocode"},
     id |-> "http://alerts.weather.gov/cap/wwacapget.php?x=KS2",
     title |-> "Flood Watch issued by NWS",
     event |-> "Flood Watch",
     expires |-> [local |-> 3601, offset |-> 3600],
     link |-> "http://alerts.weather.gov/KS2",
     summary |-> <<>>,
     geocode |-> << [valueName |-> "UGC", hasValue |-> TRUE, text |-> <<"KSZ001", "KSZ002">>] >>]

\* an entry without <title>
EntryM ==
    [has |-> (Required \ {"title"}) \cup {"geocode"},
     id |-> "http://alerts.weather.gov/cap/wwacapget.php?x=XX3",
     title |-> "",
     event |-> "Tornado Warning",
     expires |-> [local |-> 0, offset |-> 0],
     link |-> "http://alerts.weather.gov/XX3",
     summary |-> <<>>,
     geocode |-> << [valueName |-> "UGC", hasValue |-> TRUE, text |-> <<"COZ039">>] >>]

\* the entry x=CO1 as the feed carries it after a revision: the same <id>,
\* every other element changed
EntryA2 ==
    [has |-> Required \cup {"geocode"},
     id |-> "http://alerts.weather.gov/cap/wwacapget.php?x=CO1",
     title |-> "Severe Thunderstorm Warning issued by NWS",
     event |-> "Severe Thunderstorm Warning",
     expires |-> [local |-> 7200, offset |-> 0],
     link |-> "http://alerts.weather.gov/CO1-2",
     summary |-> <<>>,
     geocode |-> << [valueName |-> "UGC", hasValue |-> TRUE, text |-> <<"KSZ001">>] >>]

EntryPool == {EntryA, EntryB, EntryM}

\* the documents the feed URL can return: every sequence of pool entries
Feeds == UNION {[1..n -> EntryPool] : n \in 0..MaxFeedLen}

AlertIds == {Sha224(e.id) : e \in EntryPool}

\* ------------------------------------------------------------------- state
VARIABLES
    db,              \* the rows of the Alert table (alerts.db)
    counties,        \* parser.counties: the regions loaded from counties.json
    clock,           \* the last value arrow.utcnow().timestamp returned
    ticks,           \* how many times the clock has been seen to advance
    passes,          \* how many passes have been started, up to MaxPasses
    pc,              \* per process: where its pass stands
    args,            \* per process: the --purge and --nopush flags
    count,           \* per process: rows deleted by the expiry delete
    run_ts,          \* per process: the run timestamp
    tree,            \* per process: the entries of the fetched feed
    idx,             \* per process: the entry the fetch loop is at
    total_count,     \* per process: counters of fetch
    insert_count,
    existing_count,
    matched_alerts,  \* per process: what check_new_alerts returned
    next_alert,      \* per process: the matched alert the main loop is at
    status,          \* per process: how its last pass ended
    \* history of the run, read by the properties only
    queried,         \* per process: the rows its run-scoped select returned
    inserted,        \* per process: the rows its pass created
    db_at_start,     \* per process: the table when its pass began
    sent,            \* per alert_id: pushes sent, 2 for more than one
    owed,            \* alert_ids stored as relevant by a pushing pass, not yet sent
    first_created,   \* per alert_id: the run timestamp it was first stored under
    prev             \* feed and table of the pass completed just before, if any

\* ------------------------------------------------------------ configuration
\* a value json.loads returns for a code of counties.json: a JSON string
\* (a unicode object) or a JSON number (an int)
JsonString(text) == [json |-> "string", text |-> text, num |-> 0]
JsonNumber(n) == [json |-> "number", text |-> "", num |-> n]

Digit(k) == <<"0", "1", "2", "3", "4", "5", "6", "7", "8", "9">>[k + 1]

RECURSIVE Decimal(_)
Decimal(n) == IF n < 10 THEN Digit(n) ELSE Decimal(n \div 10) \o Digit(n % 10)

\* str(value): the text of a string, the decimal digits of an int
Str(value) == IF value.json = "number" THEN Decimal(value.num) ELSE value.text

\* value == code, code a string read from the table: an int equals no string
EqualsCode(value, code) == value.json = "string" /\ value.text = code

\* counties.json as deployed: one watched county
Arapahoe ==
    [name |-> "Arapahoe", state |-> "CO",
     fips |-> JsonString("008005"), ugc |-> JsonString("COZ039")]

DeployedCounties == <<Arapahoe>>

\* further regions a counties.json can hold: a second state, a county in
\* the forecast zone of Arapahoe, a county whose FIPS code is written as a
\* JSON number
Ellis ==
    [name |-> "Ellis", state |-> "KS",
     fips |-> JsonString("020051"), ugc |-> JsonString("KSZ001")]

Denver ==
    [name |-> "Denver", state |-> "CO",
     fips |-> JsonString("008031"), ugc |-> JsonString("COZ039")]

Duval ==
    [name |-> "Duval", state |-> "FL",
     fips |-> JsonNumber(120031), ugc |-> JsonString("FLZ025")]

\* the files counties.json can be: up to MaxCatalog regions, in any order
RegionPool == {Arapahoe, Ellis, Denver, Duval}

Catalogs == UNION {[1..n -> RegionPool] : n \in 0..MaxCatalog}

\* lines 297-299: str() of the codes of parser.counties
fips_watch_list == {Str(counties[i].fips) : i \in 1..Len(counties)}

\* a wrong watch list: the FIPS codes where the UGC codes belong
UgcWatchListOfFips == {Str(counties[i].fips) : i \in 1..Len(counties)}

ugc_watch_list == {Str(counties[i].ugc) : i \in 1..Len(counties)}

\* config.get('events', 'ignored').split(',')
ignored_events == {"Flood Watch"}

\* ------------------------------------------------------- parsing one entry
Statements == {"Severe Weather Statement", "Special Weather Statement"}

\* entry_el.find(...) returns None for an absent element, and None.text
\* raises: the loop body of fetch (lines 169-174, 202) raises on such entries
Raises(e) ==
    \/ Required \ e.has # {}
    \/ e.event \in Statements /\ ("summary" \notin e.has \/ e.summary = <<>>)

\* a text is the sequence of its characters; c.upper() of one character
Upper(c) ==
    CASE c = "a" -> "A"
      [] c = "b" -> "B"
      [] c = "c" -> "C"
      [] c = "d" -> "D"
      [] c = "e" -> "E"
      [] c = "f" -> "F"
      [] c = "g" -> "G"
      [] c = "h" -> "H"
      [] c = "i" -> "I"
      [] c = "j" -> "J"
      [] c = "k" -> "K"
      [] c = "l" -> "L"
      [] c = "m" -> "M"
      [] c = "n" -> "N"
      [] c = "o" -> "O"
      [] c = "p" -> "P"
      [] c = "q" -> "Q"
      [] c = "r" -> "R"
      [] c = "s" -> "S"
      [] c = "t" -> "T"
      [] c = "u" -> "U"
      [] c = "v" -> "V"
      [] c = "w" -> "W"
      [] c = "x" -> "X"
      [] c = "y" -> "Y"
      [] c = "z" -> "Z"
      [] OTHER -> c

\* text.upper()
UpperText(text) == [i \in 1..Len(text) |-> Upper(text[i])]

\* needle in haystack
Contains(haystack, needle) ==
    \E i \in 0..(Len(haystack) - Len(needle)) :
        SubSeq(haystack, i + 1, i + Len(needle)) = needle

\* line 203: the terms looked for, in this order
Vocabulary ==
    << <<"T", "h", "u", "n", "d", "e", "r", "s", "t", "o", "r", "m">>,
       <<"S", "t", "r", "o", "n", "g", " ", "S", "t", "o", "r", "m">>,
       <<"W", "i", "n", "d">>,
       <<"R", "a", "i", "n">>,
       <<"H", "a", "i", "l">>,
       <<"T", "o", "r", "n", "a", "d", "o">>,
       <<"F", "l", "o", "o", "d">> >>

\* a search that does not change the case of the summary
SubEventsCaseSensitive(e) ==
    IF e.event \in Statements
    THEN SelectSeq(Vocabulary, LAMBDA item : Contains(e.summary, UpperText(item)))
    ELSE <<>>

\* lines 200-205: sub_events
SubEvents(e) ==
    IF e.event \in Statements
    THEN SelectSeq(Vocabulary,
                   LAMBDA item : Contains(UpperText(e.summary), UpperText(item)))
    ELSE <<>>

\* sep.join(list) of texts
RECURSIVE JoinWith(_, _)
JoinWith(sep, list) ==
    IF list = <<>> THEN <<>>
    ELSE IF Len(list) = 1 THEN Head(list)
    ELSE Head(list) \o sep \o JoinWith(sep, Tail(list))

\* line 208: detail = ', '.join(sub_events)
Detail(e) == JoinWith(<<",", " ">>, SubEvents(e))

\* int(arrow.get(text).to('UTC').timestamp): local wall time minus the offset
ExpiresUtcTs(expires) == expires.local - expires.offset

\* lines 180-195: the value following the last valueName of that kind that
\* has a next element with text; [] without a geocode block
RECURSIVE CodeList(_, _, _)
CodeList(geocode, name, acc) ==
    IF geocode = <<>> THEN acc
    ELSE LET g == Head(geocode) IN
         CodeList(Tail(geocode), name,
                  IF g.valueName = name /\ g.hasValue THEN g.text ELSE acc)

GeoCodes(e, name) ==
    IF "geocode" \in e.has THEN CodeList(e.geocode, name, <<>>) ELSE <<>>

\* ','.join(list): the stored text, as the codes with "," between them
RECURSIVE Join(_)
Join(list) ==
    IF Len(list) <= 1 THEN list
    ELSE <<Head(list), ",">> \o Join(Tail(list))

\* text.split(','): the pieces between the separators (a piece is one code:
\* the stored text is what Join wrote)
RECURSIVE Split(_)
Split(text) ==
    IF text = <<>> THEN <<"">>
    ELSE IF Head(text) = "," THEN <<"">> \o Split(Tail(text))
    ELSE IF Len(text) = 1 THEN <<Head(text)>>
    ELSE IF text[2] = "," THEN <<Head(text)>> \o Split(Tail(Tail(text)))
    ELSE Split(Tail(text))

\* lines 91-100: an empty stored text is falsy and gives []
StoredCodes(text) == IF text = <<>> THEN <<>> ELSE Split(text)

Range(seq) == {seq[i] : i \in 1..Len(seq)}

\* ------------------------------------------------------------ Alert table
\* a lookup on the wrong column
ExistsByUrl(table, alert_id) == \E r \in table : r.api_url = alert_id

\* Alert.get(Alert.alert_id == alert_id) finds a row (else DoesNotExist)
Exists(table, alert_id) == \E r \in table : r.alert_id = alert_id

\* the implicit integer primary key of the peewee model
NextRowId(table) ==
    IF table = {} THEN 1
    ELSE (CHOOSE m \in {r.id : r \in table} : \A r \in table : r.id <= m) + 1

\* Alert.create(...) of lines 217-230
NewRow(table, e, run_timestamp) ==
    [id |-> NextRowId(table),
     alert_id |-> Sha224(e.id),
     title |-> e.title,
     event |-> e.event,
     details |-> Detail(e),
     expires |-> e.expires,
     expires_utc_ts |-> ExpiresUtcTs(e.expires),
     url |-> e.link,
     api_url |-> e.id,
     fips_codes |-> Join(GeoCodes(e, "FIPS6")),
     ugc_codes |-> Join(GeoCodes(e, "UGC")),
     created |-> run_timestamp]

\* a delete that also takes the row expiring exactly a day ago
ExpiredOrAtLimit(r, now) == r.expires_utc_ts <= now - DaySeconds

\* Alert.delete().where(Alert.expires_utc_ts < ago_ts), ago_ts a day before now
Expired(r, now) == r.expires_utc_ts < now - DaySeconds

\* Alert.select().where(Alert.created == created_ts)
CreatedIn(table, created_ts) == {r \in table : r.created = created_ts}

RECURSIVE ById(_)
ById(rows) ==
    IF rows = {} THEN <<>>
    ELSE LET r == CHOOSE x \in rows : \A y \in rows : x.id <= y.id
         IN <<r>> \o ById(rows \ {r})

\* ---------------------------------------------------------------- matching
\* [county for county in self.counties if county[field] == code]
CountiesBy(field, code) == SelectSeq(counties, LAMBDA c : EqualsCode(c[field], code))

\* lines 102-115: the lists matched_counties can end as; each loop overwrites
\* it with the counties of the code it iterates last, the FIPS loop after
\* the UGC loop
MatchedCounties(r) ==
    LET ugc_match == Range(StoredCodes(r.ugc_codes)) \cap ugc_watch_list
        fips_match == Range(StoredCodes(r.fips_codes)) \cap fips_watch_list
        after_ugc == IF ugc_match = {} THEN {<<>>}
                     ELSE {CountiesBy("ugc", c) : c \in ugc_match}
    IN  IF fips_match = {} THEN after_ugc
        ELSE {CountiesBy("fips", c) : c \in fips_match}

proc_vars == <<pc, args, count, run_ts, tree, idx, total_count, insert_count,
               existing_count, matched_alerts, next_alert, status>>
hist_vars == <<queried, inserted, db_at_start, sent, owed, first_created, prev>>
vars == <<db, counties, clock, ticks, passes, proc_vars, hist_vars>>

NoArgs == [purge |-> FALSE, nopush |-> FALSE]
NoPrev == [completed |-> FALSE, feed |-> <<>>, table |-> {}]
Never == -1

\* the state before the first run, with counties.json holding catalog
InitWatching(catalog) ==
    /\ db = {}
    /\ counties = catalog
    /\ clock = 0
    /\ ticks = 0
    /\ passes = 0
    /\ pc = [p \in Procs |-> "idle"]
    /\ args = [p \in Procs |-> NoArgs]
    /\ count = [p \in Procs |-> 0]
    /\ run_ts = [p \in Procs |-> 0]
    /\ tree = [p \in Procs |-> <<>>]
    /\ idx = [p \in Procs |-> 1]
    /\ total_count = [p \in Procs |-> 0]
    /\ insert_count = [p \in Procs |-> 0]
    /\ existing_count = [p \in Procs |-> 0]
    /\ matched_alerts = [p \in Procs |-> <<>>]
    /\ next_alert = [p \in Procs |-> 1]
    /\ status = [p \in Procs |-> "none"]
    /\ queried = [p \in Procs |-> {}]
    /\ inserted = [p \in Procs |-> {}]
    /\ db_at_start = [p \in Procs |-> {}]
    /\ sent = [a \in AlertIds |-> 0]
    /\ owed = {}
    /\ first_created = [a \in AlertIds |-> Never]
    /\ prev = NoPrev

Init == InitWatching(DeployedCounties)

\* the seconds that can have passed since the clock was last read
Elapsed == {0} \cup (IF ticks < MaxTicks THEN {1, DaySeconds} ELSE {})

ReadClock(d) ==
    /\ clock' = clock + d
    /\ ticks' = IF d > 0 THEN ticks + 1 ELSE ticks

\* the process ends (normally or by an uncaught exception)
Exit(p, how) ==
    /\ pc' = [pc EXCEPT ![p] = "exit"]
    /\ status' = [status EXCEPT ![p] = how]

\* a stored row is relevant when one of its codes is watched and its event
\* is not ignored
Watched(r) ==
    \/ Range(StoredCodes(r.ugc_codes)) \cap ugc_watch_list # {}
    \/ Range(StoredCodes(r.fips_codes)) \cap fips_watch_list # {}

Relevant(r) == Watched(r) /\ r.event \notin ignored_events

\* the code lists the geocode block of an entry can carry
FipsLists ==
    {<<>>, <<"008005">>, <<"020051">>, <<"008005", "020051">>, <<"120031">>}

UgcLists ==
    {<<>>, <<"COZ039">>, <<"KSZ001">>, <<"COZ039", "KSZ001">>, <<"FLZ025">>,
     <<"NEZ001">>}

\* the entry x=CO1 with a geocode block of these codes (lines 180-195)
GeoEntry(fips_list, ugc_list) ==
    [EntryA EXCEPT !.geocode =
        (IF fips_list = <<>> THEN <<>>
         ELSE << [valueName |-> "FIPS6", hasValue |-> TRUE, text |-> fips_list] >>)
        \o
        (IF ugc_list = <<>> THEN <<>>
         ELSE << [valueName |-> "UGC", hasValue |-> TRUE, text |-> ugc_list] >>)]

\* the first pass, on an empty table, has fetched a feed of one entry and
\* created its row; the catalog and the codes of the entry are any
InitMatch ==
    /\ \E catalog \in Catalogs, fips_list \in FipsLists, ugc_list \in UgcLists :
        LET e == GeoEntry(fips_list, ugc_list)
            row == NewRow({}, e, 0)
        IN  /\ counties = catalog
            /\ db = {row}
            /\ tree = [p \in Procs |-> IF p = P1 THEN <<e>> ELSE <<>>]
            /\ inserted = [p \in Procs |-> IF p = P1 THEN {row} ELSE {}]
            /\ owed = IF Relevant(row) THEN {row.alert_id} ELSE {}
            /\ first_created =
                    [a \in AlertIds |-> IF a = row.alert_id THEN 0 ELSE Never]
    /\ clock = 0
    /\ ticks = 0
    /\ passes = 1
    /\ pc = [p \in Procs |-> IF p = P1 THEN "loop" ELSE "idle"]
    /\ args = [p \in Procs |-> NoArgs]
    /\ count = [p \in Procs |-> 0]
    /\ run_ts = [p \in Procs |-> 0]
    /\ idx = [p \in Procs |-> IF p = P1 THEN 2 ELSE 1]
    /\ total_count = [p \in Procs |-> IF p = P1 THEN 1 ELSE 0]
    /\ insert_count = [p \in Procs |-> IF p = P1 THEN 1 ELSE 0]
    /\ existing_count = [p \in Procs |-> 0]
    /\ matched_alerts = [p \in Procs |-> <<>>]
    /\ next_alert = [p \in Procs |-> 1]
    /\ status = [p \in Procs |-> IF p = P1 THEN "running" ELSE "none"]
    /\ queried = [p \in Procs |-> {}]
    /\ db_at_start = [p \in Procs |-> {}]
    /\ sent = [a \in AlertIds |-> 0]
    /\ prev = NoPrev

\* the feeds of a later pass, in which x=CO1 can come revised
RevisedFeeds == UNION {[1..n -> {EntryA, EntryA2, EntryB}] : n \in 1..MaxFeedLen}

\* a first pass stored one entry at second 0 and completed; a second pass,
\* in that second or the next, has fetched a feed and is at its first entry
InitRevised ==
    /\ counties = DeployedCounties
    /\ \E old \in {EntryA, EntryB}, feed \in RevisedFeeds, t \in {0, 1} :
        LET row == NewRow({}, old, 0) IN
            /\ db = {row}
            /\ db_at_start = [p \in Procs |-> IF p = P1 THEN {row} ELSE {}]
            /\ tree = [p \in Procs |-> IF p = P1 THEN feed ELSE <<>>]
            /\ run_ts = [p \in Procs |-> IF p = P1 THEN t ELSE 0]
            /\ clock = t
            /\ ticks = t
            /\ sent = [a \in AlertIds |->
                        IF a = row.alert_id /\ Relevant(row) THEN 1 ELSE 0]
            /\ first_created =
                    [a \in AlertIds |-> IF a = row.alert_id THEN 0 ELSE Never]
            /\ prev = [completed |-> TRUE, feed |-> <<old>>, table |-> {row}]
    /\ passes = 2
    /\ pc = [p \in Procs |-> IF p = P1 THEN "loop" ELSE "idle"]
    /\ args = [p \in Procs |-> NoArgs]
    /\ count = [p \in Procs |-> 0]
    /\ idx = [p \in Procs |-> 1]
    /\ total_count = [p \in Procs |-> 0]
    /\ insert_count = [p \in Procs |-> 0]
    /\ existing_count = [p \in Procs |-> 0]
    /\ matched_alerts = [p \in Procs |-> <<>>]
    /\ next_alert = [p \in Procs |-> 1]
    /\ status = [p \in Procs |-> IF p = P1 THEN "running" ELSE "none"]
    /\ queried = [p \in Procs |-> {}]
    /\ inserted = [p \in Procs |-> {}]
    /\ owed = {}

\* the texts the <summary> of an entry can be (<<>> for an empty element)
Summaries ==
    {<<"r", "a", "i", "n">>,
     <<"R", "A", "I", "N">>,
     <<"R", "a", "i", "n", " ", "a", "n", "d", " ", "h", "a", "i", "l">>,
     <<"h", "a", "i", "l">>,
     <<"w", "i", "n", "d">>,
     <<"t", "o", "r", "n", "a", "d", "o">>,
     <<"f", "l", "o", "o", "d">>,
     <<"t", "h", "u", "n", "d", "e", "r", "s", "t", "o", "r", "m">>,
     <<"s", "t", "r", "o", "n", "g", " ", "s", "t", "o", "r", "m", "s">>,
     <<"s", "t", "r", "o", "n", "g", " ", "t", "h", "u", "n", "d", "e", "r", "s", "t", "o", "r", "m", "s", " ", "w", "i", "t", "h", " ", "w", "i", "n", "d">>,
     <<"r", "e", "s", "t", "r", "a", "i", "n", "e", "d">>,
     <<"c", "a", "l", "m">>,
     <<"F", "l", "o", "o", "d", " ", "t", "h", "e", "n", " ", "T", "o", "r", "n", "a", "d", "o">>,
     <<"w", "i", "n", " ", "d">>,
     <<"h", "a", "i", "l", " ", "w", "i", "n", "d", " ", "r", "a", "i", "n">>,
     <<"S", "t", "r", "o", "n", "g", " ", "s", "t", "o", "r", "m">>,
     <<>>}

\* the entry x=CO1 with that event and that summary
SummaryEntry(event, summary) ==
    [EntryA EXCEPT !.has = @ \cup {"summary"}, !.event = event,
                   !.summary = summary]

\* the first pass, on an empty table, has fetched a feed of one entry, a
\* statement or a warning with any of the summaries
InitKeywords ==
    /\ counties = DeployedCounties
    /\ db = {}
    /\ \E event \in Statements \cup {"Tornado Warning"}, summary \in Summaries :
        tree = [p \in Procs |->
                    IF p = P1 THEN <<SummaryEntry(event, summary)>> ELSE <<>>]
    /\ clock = 0
    /\ ticks = 0
    /\ passes = 1
    /\ pc = [p \in Procs |-> IF p = P1 THEN "loop" ELSE "idle"]
    /\ args = [p \in Procs |-> NoArgs]
    /\ count = [p \in Procs |-> 0]
    /\ run_ts = [p \in Procs |-> 0]
    /\ idx = [p \in Procs |-> 1]
    /\ total_count = [p \in Procs |-> 0]
    /\ insert_count = [p \in Procs |-> 0]
    /\ existing_count = [p \in Procs |-> 0]
    /\ matched_alerts = [p \in Procs |-> <<>>]
    /\ next_alert = [p \in Procs |-> 1]
    /\ status = [p \in Procs |-> IF p = P1 THEN "running" ELSE "none"]
    /\ queried = [p \in Procs |-> {}]
    /\ inserted = [p \in Procs |-> {}]
    /\ db_at_start = [p \in Procs |-> {}]
    /\ sent = [a \in AlertIds |-> 0]
    /\ owed = {}
    /\ first_created = [a \in AlertIds |-> Never]
    /\ prev = NoPrev

\* ----------------------------------------------------------------- actions
\* lines 301-309: the script starts; --purge deletes every row, otherwise the
\* rows that expired more than a day ago are deleted
Start(p, command_lines) ==
    /\ pc[p] \in {"idle", "exit"}
    /\ passes' = IF passes < MaxPasses THEN passes + 1 ELSE passes
    /\ \E a \in command_lines, d \in Elapsed :
        /\ args' = [args EXCEPT ![p] = a]
        /\ IF a.purge
           THEN /\ d = 0
                /\ db' = {}
                /\ count' = [count EXCEPT ![p] = 0]
                /\ UNCHANGED <<clock, ticks>>
           ELSE /\ ReadClock(d)
                /\ db' = {r \in db : ~Expired(r, clock')}
                /\ count' = [count EXCEPT ![p] = Cardinality(db \ db')]
    /\ pc' = [pc EXCEPT ![p] = "mark"]
    /\ status' = [status EXCEPT ![p] = "running"]
    /\ tree' = [tree EXCEPT ![p] = <<>>]
    /\ idx' = [idx EXCEPT ![p] = 1]
    /\ total_count' = [total_count EXCEPT ![p] = 0]
    /\ insert_count' = [insert_count EXCEPT ![p] = 0]
    /\ existing_count' = [existing_count EXCEPT ![p] = 0]
    /\ matched_alerts' = [matched_alerts EXCEPT ![p] = <<>>]
    /\ next_alert' = [next_alert EXCEPT ![p] = 1]
    /\ queried' = [queried EXCEPT ![p] = {}]
    /\ inserted' = [inserted EXCEPT ![p] = {}]
    /\ db_at_start' = [db_at_start EXCEPT ![p] = db]
    /\ prev' = IF pc[p] = "exit" /\ status[p] = "ok"
               THEN [completed |-> TRUE, feed |-> tree[p], table |-> db]
               ELSE NoPrev
    /\ UNCHANGED <<counties, run_ts, sent, owed, first_created>>

\* lines 311-314: run_ts = arrow.utcnow().timestamp
MarkRun(p) ==
    /\ pc[p] = "mark"
    /\ \E d \in Elapsed : ReadClock(d)
    /\ run_ts' = [run_ts EXCEPT ![p] = clock']
    /\ pc' = [pc EXCEPT ![p] = "fetch"]
    /\ UNCHANGED <<counties, db, passes, args, count, tree, idx, total_count, insert_count,
                   existing_count, matched_alerts, next_alert, status, hist_vars>>

\* line 158: lxml.etree.parse(url) returns the feed document
FetchFeed(p) ==
    /\ pc[p] = "fetch"
    /\ \E feed \in Feeds : tree' = [tree EXCEPT ![p] = feed]
    /\ pc' = [pc EXCEPT ![p] = "loop"]
    /\ UNCHANGED <<counties, db, clock, ticks, passes, args, count, run_ts, idx, total_count,
                   insert_count, existing_count, matched_alerts, next_alert,
                   status, hist_vars>>

\* a fetch error that is recorded while the pass goes on with an empty feed
FetchRaisesCaught(p) ==
    /\ pc[p] = "fetch"
    /\ pc' = [pc EXCEPT ![p] = "loop"]
    /\ status' = [status EXCEPT ![p] = "fetch_error"]
    /\ UNCHANGED <<counties, db, clock, ticks, passes, args, count, run_ts, tree, idx,
                   total_count, insert_count, existing_count, matched_alerts,
                   next_alert, hist_vars>>

\* line 158: lxml.etree.parse(url) raises (unreachable, timeout, bad XML);
\* nothing catches it
FetchRaises(p) ==
    /\ pc[p] = "fetch"
    /\ Exit(p, "fetch_error")
    /\ UNCHANGED <<counties, db, clock, ticks, passes, args, count, run_ts, tree, idx,
                   total_count, insert_count, existing_count, matched_alerts,
                   next_alert, hist_vars>>

\* a lookup that stamps the row it finds with the current run timestamp
LookupEntryTouching(p) ==
    /\ pc[p] = "loop"
    /\ idx[p] <= Len(tree[p])
    /\ total_count' = [total_count EXCEPT ![p] = @ + 1]
    /\ LET e == tree[p][idx[p]] IN
        IF Raises(e)
        THEN /\ Exit(p, "entry_error")
             /\ UNCHANGED <<db, idx, existing_count>>
        ELSE IF Exists(db, Sha224(e.id))
        THEN /\ existing_count' = [existing_count EXCEPT ![p] = @ + 1]
             /\ idx' = [idx EXCEPT ![p] = @ + 1]
             /\ db' = {IF r.alert_id = Sha224(e.id)
                       THEN [r EXCEPT !.created = run_ts[p]] ELSE r : r \in db}
             /\ UNCHANGED <<pc, status>>
        ELSE /\ pc' = [pc EXCEPT ![p] = "create"]
             /\ UNCHANGED <<db, idx, existing_count, status>>
    /\ UNCHANGED <<counties, clock, ticks, passes, args, count, run_ts, tree,
                   insert_count, matched_alerts, next_alert, hist_vars>>

\* lines 165-216: one entry up to the lookup; an entry with a missing element
\* raises out of the loop, an entry whose alert_id is stored is counted
LookupEntry(p) ==
    /\ pc[p] = "loop"
    /\ idx[p] <= Len(tree[p])
    /\ total_count' = [total_count EXCEPT ![p] = @ + 1]
    /\ LET e == tree[p][idx[p]] IN
        IF Raises(e)
        THEN /\ Exit(p, "entry_error")
             /\ UNCHANGED <<idx, existing_count>>
        ELSE IF Exists(db, Sha224(e.id))
        THEN /\ existing_count' = [existing_count EXCEPT ![p] = @ + 1]
             /\ idx' = [idx EXCEPT ![p] = @ + 1]
             /\ UNCHANGED <<pc, status>>
        ELSE /\ pc' = [pc EXCEPT ![p] = "create"]
             /\ UNCHANGED <<idx, existing_count, status>>
    /\ UNCHANGED <<counties, db, clock, ticks, passes, args, count, run_ts, tree,
                   insert_count, matched_alerts, next_alert, hist_vars>>

\* lines 213-216: Alert.get raises something other than DoesNotExist (the
\* database is locked or cannot be read); "except Exception" catches it as
\* it catches DoesNotExist, and the handler goes on to Alert.create
LookupFails(p) ==
    /\ pc[p] = "loop"
    /\ idx[p] <= Len(tree[p])
    /\ ~Raises(tree[p][idx[p]])
    /\ total_count' = [total_count EXCEPT ![p] = @ + 1]
    /\ pc' = [pc EXCEPT ![p] = "fault_create"]
    /\ UNCHANGED <<counties, db, clock, ticks, passes, args, count, run_ts, tree, idx,
                   insert_count, existing_count, matched_alerts, next_alert,
                   status, hist_vars>>

\* lines 216-230: Alert.create raises inside the handler (the storage is
\* still failing); nothing catches it
CreateRaises(p) ==
    /\ pc[p] = "fault_create"
    /\ insert_count' = [insert_count EXCEPT ![p] = @ + 1]
    /\ Exit(p, "storage_error")
    /\ UNCHANGED <<counties, db, clock, ticks, passes, args, count, run_ts, tree, idx,
                   total_count, existing_count, matched_alerts, next_alert,
                   hist_vars>>

\* lines 215-230: the lookup raised, so the row is created under run_timestamp
CreateEntry(p) ==
    /\ pc[p] \in {"create", "fault_create"}
    /\ LET row == NewRow(db, tree[p][idx[p]], run_ts[p]) IN
        /\ db' = db \cup {row}
        /\ inserted' = [inserted EXCEPT ![p] = @ \cup {row}]
        /\ owed' = IF ~args[p].nopush /\ Relevant(row)
                   THEN owed \cup {row.alert_id} ELSE owed
        /\ first_created' = IF first_created[row.alert_id] = Never
                            THEN [first_created EXCEPT ![row.alert_id] = row.created]
                            ELSE first_created
    /\ insert_count' = [insert_count EXCEPT ![p] = @ + 1]
    /\ idx' = [idx EXCEPT ![p] = @ + 1]
    /\ pc' = [pc EXCEPT ![p] = "loop"]
    /\ UNCHANGED <<counties, clock, ticks, passes, args, count, run_ts, tree, total_count,
                   existing_count, matched_alerts, next_alert, status,
                   queried, db_at_start, sent, prev>>

\* a check_new_alerts that clears the run timestamp of the rows it selected
CheckNewMarking(p) ==
    /\ pc[p] = "loop"
    /\ idx[p] > Len(tree[p])
    /\ LET rows == CreatedIn(db, run_ts[p]) IN
        /\ queried' = [queried EXCEPT ![p] = rows]
        /\ db' = (db \ rows) \cup {[r EXCEPT !.created = Never] : r \in rows}
        /\ \E m \in [rows -> UNION {MatchedCounties(r) : r \in rows}] :
            /\ \A r \in rows : m[r] \in MatchedCounties(r)
            /\ LET found == SelectSeq(ById(rows), LAMBDA r : Len(m[r]) > 0)
               IN matched_alerts' = [matched_alerts EXCEPT ![p] =
                    [i \in 1..Len(found) |->
                        [record |-> found[i],
                         county |-> m[found[i]][1].name,
                         state |-> m[found[i]][1].state]]]
    /\ next_alert' = [next_alert EXCEPT ![p] = 1]
    /\ pc' = [pc EXCEPT ![p] = "notify"]
    /\ UNCHANGED <<counties, clock, ticks, passes, args, count, run_ts, tree, idx,
                   total_count, insert_count, existing_count, status,
                   inserted, db_at_start, sent, owed, first_created, prev>>

\* lines 81-125, called at line 320: select the rows created under run_ts and
\* keep those with a matched county
CheckNew(p) ==
    /\ pc[p] = "loop"
    /\ idx[p] > Len(tree[p])
    /\ LET rows == CreatedIn(db, run_ts[p]) IN
        /\ queried' = [queried EXCEPT ![p] = rows]
        /\ \E m \in [rows -> UNION {MatchedCounties(r) : r \in rows}] :
            /\ \A r \in rows : m[r] \in MatchedCounties(r)
            /\ LET found == SelectSeq(ById(rows), LAMBDA r : Len(m[r]) > 0)
               IN matched_alerts' = [matched_alerts EXCEPT ![p] =
                    [i \in 1..Len(found) |->
                        [record |-> found[i],
                         county |-> m[found[i]][1].name,
                         state |-> m[found[i]][1].state]]]
    /\ next_alert' = [next_alert EXCEPT ![p] = 1]
    /\ pc' = [pc EXCEPT ![p] = "notify"]
    /\ UNCHANGED <<counties, db, clock, ticks, passes, args, count, run_ts, tree, idx,
                   total_count, insert_count, existing_count, status,
                   inserted, db_at_start, sent, owed, first_created, prev>>

\* a main loop that does not look at ignored_events
NotifyIgnored(p) ==
    /\ pc[p] = "notify"
    /\ next_alert[p] <= Len(matched_alerts[p])
    /\ LET alert == matched_alerts[p][next_alert[p]].record IN
        IF args[p].nopush
        THEN UNCHANGED <<sent, owed>>
        ELSE /\ \E ok \in BOOLEAN :
                 sent' = IF ok /\ sent[alert.alert_id] < 2
                         THEN [sent EXCEPT ![alert.alert_id] = @ + 1] ELSE sent
             /\ owed' = owed \ {alert.alert_id}
    /\ next_alert' = [next_alert EXCEPT ![p] = @ + 1]
    /\ UNCHANGED <<counties, db, clock, ticks, passes, pc, args, count, run_ts, tree, idx,
                   total_count, insert_count, existing_count, matched_alerts,
                   status, queried, inserted, db_at_start, first_created, prev>>

\* lines 320-347: one matched alert; an ignored event is only logged,
\* otherwise the details are fetched, the page is written and, unless
\* --nopush, send_pushover_alert posts the message (accepted or rejected)
Notify(p) ==
    /\ pc[p] = "notify"
    /\ next_alert[p] <= Len(matched_alerts[p])
    /\ LET alert == matched_alerts[p][next_alert[p]].record IN
        IF alert.event \in ignored_events \/ args[p].nopush
        THEN UNCHANGED <<sent, owed>>
        ELSE /\ \E ok \in BOOLEAN :
                 sent' = IF ok /\ sent[alert.alert_id] < 2
                         THEN [sent EXCEPT ![alert.alert_id] = @ + 1] ELSE sent
             /\ owed' = owed \ {alert.alert_id}
    /\ next_alert' = [next_alert EXCEPT ![p] = @ + 1]
    /\ UNCHANGED <<counties, db, clock, ticks, passes, pc, args, count, run_ts, tree, idx,
                   total_count, insert_count, existing_count, matched_alerts,
                   status, queried, inserted, db_at_start, first_created, prev>>

\* line 326 (lxml.etree.parse of the detail URL, or a missing element in it)
\* raises for a matched alert that is not ignored; nothing catches it
DetailsRaises(p) ==
    /\ pc[p] = "notify"
    /\ next_alert[p] <= Len(matched_alerts[p])
    /\ matched_alerts[p][next_alert[p]].record.event \notin ignored_events
    /\ Exit(p, "detail_error")
    /\ UNCHANGED <<counties, db, clock, ticks, passes, args, count, run_ts, tree, idx,
                   total_count, insert_count, existing_count, matched_alerts,
                   next_alert, hist_vars>>

\* lines 66-73, called at line 342: requests.post raises (no connection) for
\* a matched alert that is not ignored; nothing catches it
PushRaises(p) ==
    /\ pc[p] = "notify"
    /\ next_alert[p] <= Len(matched_alerts[p])
    /\ matched_alerts[p][next_alert[p]].record.event \notin ignored_events
    /\ ~args[p].nopush
    /\ owed' = owed \ {matched_alerts[p][next_alert[p]].record.alert_id}
    /\ Exit(p, "push_error")
    /\ UNCHANGED <<counties, db, clock, ticks, passes, args, count, run_ts, tree, idx,
                   total_count, insert_count, existing_count, matched_alerts,
                   next_alert, queried, inserted, db_at_start, sent,
                   first_created, prev>>

\* an end of the script that deletes the rows whose expiry has passed
FinishPruning(p) ==
    /\ pc[p] = "notify"
    /\ next_alert[p] > Len(matched_alerts[p])
    /\ db' = {r \in db : r.expires_utc_ts >= clock}
    /\ Exit(p, "ok")
    /\ UNCHANGED <<counties, clock, ticks, passes, args, count, run_ts, tree, idx,
                   total_count, insert_count, existing_count, matched_alerts,
                   next_alert, hist_vars>>

\* the loop of line 320 is over: the script ends
Finish(p) ==
    /\ pc[p] = "notify"
    /\ next_alert[p] > Len(matched_alerts[p])
    /\ Exit(p, "ok")
    /\ UNCHANGED <<counties, db, clock, ticks, passes, args, count, run_ts, tree, idx,
                   total_count, insert_count, existing_count, matched_alerts,
                   next_alert, hist_vars>>

\* the script is started with any flags
Begin(p) ==
    /\ passes < MaxPasses
    /\ Start(p, [purge : BOOLEAN, nopush : BOOLEAN])

\* the scheduler starts its command line again before the last run has ended
BeginOverlapping(p, q) ==
    /\ passes < MaxPasses
    /\ pc[q] \notin {"idle", "exit"}
    /\ Start(p, {args[q]})

\* the scheduler starts the script without flags, again and again
BeginScheduled(p) == Start(p, {NoArgs})

Steps(p) ==
    \/ MarkRun(p)
    \/ FetchFeed(p)
    \/ FetchRaises(p)
    \/ LookupEntry(p)
    \/ CreateEntry(p)
    \/ CheckNew(p)
    \/ Notify(p)
    \/ DetailsRaises(p)
    \/ PushRaises(p)
    \/ Finish(p)

\* passes one after another: the script is started when the last run has ended
Next ==
    \/ Begin(P1)
    \/ Steps(P1)

Spec == Init /\ [][Next]_vars

\* the script is started while another run of it is still going
NextOverlap ==
    \/ pc[P2] \in {"idle", "exit"} /\ Begin(P1)
    \/ BeginOverlapping(P2, P1)
    \/ \E p \in Procs : Steps(p)

SpecOverlap == Init /\ [][NextOverlap]_vars

\* the scheduled service: the script is started without flags for ever, one
\* run after the other
NextScheduled ==
    \/ BeginScheduled(P1)
    \/ Steps(P1)

\* a started script runs on, the scheduler keeps starting it, and the feed
\* is not down for ever
FairSpec ==
    /\ Init /\ [][NextScheduled]_vars
    /\ WF_vars(NextScheduled)
    /\ SF_vars(FetchFeed(P1))

\* passes one after another with a second county watched, in Kansas
SpecKansas == InitWatching(<<Arapahoe, Ellis>>) /\ [][Next]_vars

\* check_new_alerts and the main loop on one new row, for every catalog
NextMatch ==
    \/ CheckNew(P1)
    \/ Notify(P1)
    \/ Finish(P1)

SpecMatch == InitMatch /\ [][NextMatch]_vars

\* the fetch loop, the matching and the main loop of a pass that finds a row
\* stored, on feeds that can carry the entry revised
NextRevised ==
    \/ LookupEntry(P1)
    \/ CreateEntry(P1)
    \/ CheckNew(P1)
    \/ Notify(P1)
    \/ Finish(P1)

SpecRevised == InitRevised /\ [][NextRevised]_vars

\* the fetch loop on one entry, for every event and summary
NextKeywords ==
    \/ LookupEntry(P1)
    \/ CreateEntry(P1)

SpecKeywords == InitKeywords /\ [][NextKeywords]_vars

\* passes one after another on a storage whose reads can fail
NextFault ==
    \/ Next
    \/ LookupFails(P1)
    \/ CreateRaises(P1)

SpecFault == Init /\ [][NextFault]_vars

\* -------------------------------------------------------------- properties
Ended(p, how) == pc[p] = "exit" /\ status[p] = how

\* the entry the fetch loop of p handled last
LastEntry(p) == tree[p][idx[p] - 1]

\* C1: across all passes, purging and pruning ones included, at most one
\* notification is sent for an alert_id
AtMostOneNotification == \A a \in AlertIds : sent[a] <= 1

\* C2: an alert_id stored as relevant by a pass that pushes is handed to
\* send_pushover_alert by that pass or a later one
StoredRelevantIsSent == \A a \in AlertIds : (a \in owed) ~> (a \notin owed)

\* C3: with passes run one after another no two rows have the same alert_id,
\* and a row is only created for an alert_id that is not stored
NoDuplicateIdentity ==
    /\ \A r, s \in db : r.alert_id = s.alert_id => r = s
    /\ \A p \in Procs :
        pc[p] = "create" => ~\E r \in db : r.alert_id = Sha224(tree[p][idx[p]].id)

\* C3 witness: a feed held the same entry twice; the second one was counted
\* as existing and one row is stored for it
SecondEntryCounted ==
    /\ pc[P1] = "loop" /\ idx[P1] = 3
    /\ tree[P1][1] = tree[P1][2]
    /\ insert_count[P1] = 1 /\ existing_count[P1] = 1
    /\ Cardinality({r \in db : r.alert_id = Sha224(tree[P1][2].id)}) = 1

\* C4: with overlapping passes the lookup and the create of an entry act as
\* one step, so at most one row per alert_id is ever stored
LookupAndCreateAtomic ==
    \A a \in AlertIds : Cardinality({r \in db : r.alert_id = a}) <= 1

\* C5: a completed pass, run right after a completed pass that fetched the
\* same feed, creates nothing, counts every entry as existing, leaves the
\* table as the first pass left it and matches no alert; stated for second
\* passes that delete nothing (no --purge, no expired row)
SecondPassIdle ==
    \A p \in Procs :
        (/\ Ended(p, "ok") /\ ~args[p].purge /\ count[p] = 0
         /\ prev.completed /\ tree[p] = prev.feed) =>
            /\ insert_count[p] = 0
            /\ existing_count[p] = Len(tree[p])
            /\ db = prev.table
            /\ matched_alerts[p] = <<>>

\* C6: the select on the run timestamp of a pass returns exactly the rows
\* that pass created, and so no row another pass created
RunScopedSelectExact ==
    \A p \in Procs : pc[p] = "notify" => queried[p] = inserted[p]

\* the step in which process p executes the expiry delete
PruneStep(p) == pc[p] \in {"idle", "exit"} /\ pc'[p] = "mark" /\ ~args'[p].purge

FetchFailureLeavesTable ==
    \A p \in Procs : Ended(p, "fetch_error") => db = db_at_start[p]

\* C10: an entry lacking a required element does not end the pass: the pass
\* never ends in the fetch loop, and when it has ended every entry of its
\* feed that has the required elements is stored
LackingEntrySkipped ==
    \A p \in Procs :
        (pc[p] = "exit" /\ status[p] # "fetch_error") =>
            /\ status[p] # "entry_error"
            /\ \A i \in 1..Len(tree[p]) :
                Required \subseteq tree[p][i].has =>
                    \E r \in db : r.alert_id = Sha224(tree[p][i].id)

\* C11: a storage failure of the lookup ends the pass: after Alert.get has
\* raised a storage error the next step of the pass is its exit, with the
\* table as it was, so no row is created for that entry
LookupFailureIsFatal ==
    [][\A p \in Procs :
        pc[p] = "fault_create" => pc'[p] = "exit" /\ db' = db]_vars

\* C12: no notification is ever sent for the alert_id of an entry whose
\* event is ignored, in no pass; and such an entry is stored like any other:
\* once the fetch loop has handled it, exactly one row of its alert_id is in
\* the table
IgnoredStoredNotSent ==
    /\ \A e \in EntryPool :
            e.event \in ignored_events => sent[Sha224(e.id)] = 0
    /\ \A p \in Procs :
            (/\ pc[p] = "loop" /\ idx[p] > 1
             /\ LastEntry(p).event \in ignored_events) =>
                Cardinality({r \in db : r.alert_id = Sha224(LastEntry(p).id)}) = 1

\* C12 witness: a pushing pass matched the row of an ignored event, which it
\* had just created, to a watched county and went past it
IgnoredMatchPassed ==
    /\ pc[P1] = "notify" /\ ~args[P1].nopush /\ next_alert[P1] > 1
    /\ LET alert == matched_alerts[P1][next_alert[P1] - 1].record
       IN alert.event \in ignored_events /\ alert \in inserted[P1]

\* the UGC and FIPS codes of a stored row, as check_new_alerts splits them
UgcCodes(r) == Range(StoredCodes(r.ugc_codes))

FipsCodes(r) == Range(StoredCodes(r.fips_codes))

\* the run-scoped select of p returned r and the matching pass kept it with
\* the county and state of region
Yields(p, r, region) ==
    \E k \in 1..Len(matched_alerts[p]) :
        /\ matched_alerts[p][k].record = r
        /\ matched_alerts[p][k].county = region.name
        /\ matched_alerts[p][k].state = region.state

\* C13, as claimed: for every catalog, a new row one of whose UGC codes is
\* the UGC code of catalog region R is matched to R
UgcMatchYieldsRegion ==
    \A p \in Procs : pc[p] = "notify" =>
        \A r \in queried[p] : \A i \in 1..Len(counties) :
            Str(counties[i].ugc) \in UgcCodes(r) => Yields(p, r, counties[i])

\* C13, amended: a new row none of whose FIPS codes is watched, and whose
\* UGC codes are the UGC code of exactly one catalog region R, is matched to R
SoleUgcMatchYieldsRegion ==
    \A p \in Procs : pc[p] = "notify" =>
        \A r \in queried[p] : \A i \in 1..Len(counties) :
            (/\ Str(counties[i].ugc) \in UgcCodes(r)
             /\ FipsCodes(r) \cap fips_watch_list = {}
             /\ \A j \in 1..Len(counties) :
                    Str(counties[j].ugc) \in UgcCodes(r) => counties[j] = counties[i])
                => Yields(p, r, counties[i])

\* C13 witness: of two regions of the catalog the second one is the only one
\* with a UGC code of the new row, which has no FIPS code, and the row was
\* matched to it
MatchedSecondRegionByUgc ==
    /\ pc[P1] = "notify" /\ Len(counties) = 2 /\ Len(matched_alerts[P1]) = 1
    /\ LET m == matched_alerts[P1][1] IN
        /\ m.record.fips_codes = <<>>
        /\ Str(counties[1].ugc) \notin UgcCodes(m.record)
        /\ Str(counties[2].ugc) \in UgcCodes(m.record)
        /\ m.county = counties[2].name

\* a code of the row is, as text, a code of the same kind of a catalog region
CodeOfCatalog(r) ==
    \E i \in 1..Len(counties) :
        \/ Str(counties[i].ugc) \in UgcCodes(r)
        \/ Str(counties[i].fips) \in FipsCodes(r)

InResult(p, r) == \E k \in 1..Len(matched_alerts[p]) : matched_alerts[p][k].record = r

\* C14: a new row is in the list check_new_alerts returns exactly when one of
\* its UGC or FIPS codes is a code of a catalog region; no notification is
\* sent for a row without such a code
ResultSetIffCodeMatches ==
    /\ \A p \in Procs : pc[p] = "notify" =>
            \A r \in queried[p] : InResult(p, r) <=> CodeOfCatalog(r)
    /\ \A r \in db : ~CodeOfCatalog(r) => sent[r.alert_id] = 0

\* the catalog regions a code of that kind of the row names
RegionsNamed(r, field, codes) ==
    {counties[i] : i \in {j \in 1..Len(counties) : Str(counties[j][field]) \in codes}}

\* C18: a new row with a FIPS code of a catalog region is matched to a region
\* that has one of its FIPS codes, whatever its UGC codes match; a new row
\* with only a UGC code of a catalog region is matched to a region that has
\* one of its UGC codes
FipsOverridesUgc ==
    \A p \in Procs : pc[p] = "notify" =>
        \A r \in queried[p] :
            LET by_fips == RegionsNamed(r, "fips", FipsCodes(r))
                by_ugc == RegionsNamed(r, "ugc", UgcCodes(r))
            IN  /\ by_fips # {} => \E region \in by_fips : Yields(p, r, region)
                /\ (by_fips = {} /\ by_ugc # {}) =>
                        \E region \in by_ugc : Yields(p, r, region)

\* C15: a pass whose fetch raised has ended there, with no entry read, no
\* row created, no select and no match made, and its step sent nothing; and
\* a step that sends a notification is a step of a running pass that has
\* gone through its whole feed, has made its run-scoped select (which holds
\* the rows it created) and sends the matched alert it stands at
DispatchOnlyAfterMatching ==
    [][/\ \A p \in Procs : status'[p] = "fetch_error" =>
            /\ pc'[p] = "exit" /\ sent' = sent
            /\ tree'[p] = <<>> /\ inserted'[p] = {}
            /\ queried'[p] = {} /\ matched_alerts'[p] = <<>>
       /\ sent' # sent => \E p \in Procs :
            /\ pc[p] = "notify" /\ status[p] = "running"
            /\ idx[p] > Len(tree[p]) /\ total_count[p] = Len(tree[p])
            /\ inserted[p] \subseteq queried[p]
            /\ next_alert[p] <= Len(matched_alerts[p])
            /\ InResult(p, matched_alerts[p][next_alert[p]].record)
            /\ LET a == matched_alerts[p][next_alert[p]].record.alert_id
               IN sent' = [sent EXCEPT ![a] = @ + 1]]_vars

\* C15 witness: the fetch of a pushing pass raised while the table held a
\* relevant row created under the run timestamp of that pass
FetchFailedWithRowOfRun ==
    /\ Ended(P1, "fetch_error") /\ ~args[P1].nopush
    /\ \E r \in db : r.created = run_ts[P1] /\ Relevant(r)

\* C16: the step of the fetch loop at an entry whose alert_id is stored
\* leaves the table as it is, whatever the elements of the entry are, and
\* goes on with the loop; and from the end of the fetch loop on
\* (check_new_alerts and the main loop) no step changes the table
StoredRowUntouched ==
    [][\A p \in Procs :
        /\ (/\ pc[p] = "loop" /\ idx[p] <= Len(tree[p])
            /\ ~Raises(tree[p][idx[p]])
            /\ Exists(db, Sha224(tree[p][idx[p]].id))) =>
                db' = db /\ pc'[p] = "loop" /\ idx'[p] = idx[p] + 1
        /\ ((pc[p] = "loop" /\ idx[p] > Len(tree[p])) \/ pc[p] = "notify") =>
                db' = db]_vars

\* C16 witness: the pass has gone past the revised entry of x=CO1, the row
\* stored for x=CO1 is the only one and still has the elements of the first
\* version, and the pass has made its select
RevisedEntryLeftRow ==
    /\ pc[P1] = "notify" /\ tree[P1] = <<EntryA2>> /\ existing_count[P1] = 1
    /\ db = {NewRow({}, EntryA, 0)}

\* the step in which process p executes the delete of lines 304-308
DeleteStep(p) == pc[p] \in {"idle", "exit"} /\ pc'[p] = "mark"

\* C17: a row leaves the table only in the delete step of a starting pass;
\* without --purge only a row with expires_utc_ts below the time of the step
\* leaves, with --purge every row leaves, and the table is empty when that
\* pass comes to its fetch
DeletedOnlyByPruneOrPurge ==
    [][/\ \A r \in db : r \notin db' =>
            \E p \in Procs :
                DeleteStep(p) /\ (args'[p].purge \/ r.expires_utc_ts < clock')
       /\ \A p \in Procs :
            (args'[p].purge /\ pc'[p] \in {"mark", "fetch"}) => db' = {}]_vars

\* C17 witness: a pass started with --purge has emptied a table that held a
\* row not yet expired, and has not fetched yet
PurgedUnexpiredRow ==
    /\ pc[P1] = "mark" /\ args[P1].purge /\ db = {}
    /\ \E r \in db_at_start[P1] : r.expires_utc_ts >= clock

\* C19: when the fetch and the select of a pass are done, total_count is
\* insert_count + existing_count, insert_count is the number of rows the
\* pass added to the table, and that is the number of rows its run-scoped
\* select returned
CountsAgree ==
    \A p \in Procs : pc[p] = "notify" =>
        /\ total_count[p] = insert_count[p] + existing_count[p]
        /\ total_count[p] = Len(tree[p])
        /\ insert_count[p] = Cardinality(inserted[p])
        /\ insert_count[p] = Cardinality(queried[p])

\* c.lower() of one character
Lower(c) ==
    CASE c = "A" -> "a"
      [] c = "B" -> "b"
      [] c = "C" -> "c"
      [] c = "D" -> "d"
      [] c = "E" -> "e"
      [] c = "F" -> "f"
      [] c = "G" -> "g"
      [] c = "H" -> "h"
      [] c = "I" -> "i"
      [] c = "J" -> "j"
      [] c = "K" -> "k"
      [] c = "L" -> "l"
      [] c = "M" -> "m"
      [] c = "N" -> "n"
      [] c = "O" -> "o"
      [] c = "P" -> "p"
      [] c = "Q" -> "q"
      [] c = "R" -> "r"
      [] c = "S" -> "s"
      [] c = "T" -> "t"
      [] c = "U" -> "u"
      [] c = "V" -> "v"
      [] c = "W" -> "w"
      [] c = "X" -> "x"
      [] c = "Y" -> "y"
      [] c = "Z" -> "z"
      [] OTHER -> c

\* the term occurs in the text at some position, letter case set aside
OccursIgnoringCase(term, text) ==
    \E i \in 1..Len(text) :
        /\ i + Len(term) - 1 <= Len(text)
        /\ \A j \in 1..Len(term) : Lower(text[i + j - 1]) = Lower(term[j])

\* C20: the details stored for an entry are, for a Severe or Special Weather
\* Statement, the terms of the vocabulary that occur in its summary, letter
\* case set aside, in the order of the vocabulary and joined by ", "; for
\* any other event they are empty
KeywordsStored ==
    \A p \in Procs : (pc[p] = "loop" /\ idx[p] > 1) =>
        \E r \in db :
            /\ r.alert_id = Sha224(LastEntry(p).id)
            /\ r.details =
                IF LastEntry(p).event \in Statements
                THEN JoinWith(<<",", " ">>,
                        SelectSeq(Vocabulary,
                            LAMBDA term :
                                OccursIgnoringCase(term, LastEntry(p).summary)))
                ELSE <<>>

\* C20 witness: a statement whose summary names Flood before Tornado, in
\* mixed case, was stored with the details "Tornado, Flood"
StoredInVocabularyOrder ==
    /\ pc[P1] = "loop" /\ idx[P1] = 2
    /\ LastEntry(P1).event \in Statements
    /\ LastEntry(P1).summary = <<"F", "l", "o", "o", "d", " ", "t", "h", "e", "n", " ", "T",
          "o", "r", "n", "a", "d", "o">>
    /\ \E r \in db : r.details = <<"T", "o", "r", "n", "a", "d", "o", ",", " ", "F", "l", "o",
          "o", "d">>

====
